---- MODULE Spec2Model ----
(***************************************************************************)
(* MateBot money transactions: Transaction (construction and the commit    *)
(* protocol of transactions.py) and TransactionLog (the query, the         *)
(* validity verdict and the renderings), over a store of user balances and *)
(* a transactions table.                                                   *)
(*                                                                         *)
(* The modules `user` and `dbhelper` are imported by transactions.py; the  *)
(* model gives them the behaviour that transactions.py relies on: a user   *)
(* object caches the balance read by update(), execute() runs one          *)
(* statement in a connection of its own, execute_no_commit() runs one      *)
(* statement in a connection whose effects stay invisible until            *)
(* connection.commit() and are dropped by connection.close(); called       *)
(* without a connection it opens one, which it hands back when the         *)
(* statement has succeeded, and the release of a connection is left to the *)
(* caller.                                                                 *)
(***************************************************************************)
EXTENDS Integers, Sequences, FiniteSets, TLC

\* ------------------------------------------------------------------ bounds
NUsers == 2
MaxTx == 2
MaxAmount == 2
MaxFail == 1
MaxLedger == 2
MaxBal == 2

\* ------------------------------------------------------- program constants
NoId == 0
NoTid == 0
NotAUser == 0
None == "None"
DEFAULT_NULL_REASON_REPLACE == "<no description>"

Users == 1..NUsers
UnknownUid == NUsers + 1
Uids == 1..UnknownUid
Txs == 1..MaxTx
Amounts == (-1)..MaxAmount
Reasons == {None, "r"}
TxReasons == {None}
Zones == {0, 1}
Modes == {-1, 0, 1}

VARIABLES
    balance,    \* users.balance, by user id (committed rows)
    ledger,     \* the transactions table (committed rows, in id order)
    nextId,     \* AUTO_INCREMENT counter of the transactions table
    clock,      \* the store's CURRENT_TIMESTAMP
    txs,        \* Transaction objects: _src, _dst (uid and cached balance of the account
                \* objects), _amount, _reason, _committed, _id
    pc,         \* position of each Transaction's commit() call
    conn,       \* the connection of each commit() call: "None", "open" (bound to the
                \* local `connection`), "unbound" (opened, never handed back) or "closed"
    pend,       \* statements executed in that connection and not yet committed
    exc,        \* the exception the running call is raising, if any
    result,     \* how the last constructor or commit() call of each Transaction ended
    failedAt,   \* the store step at which a commit() of the Transaction last failed
    applied,    \* number of atomic units of the Transaction that were finalized
    snap,       \* the store as it was when the commit() call that began last began
    cur,        \* the Transaction whose commit() call began last
    fails,      \* number of store failures so far
    view,       \* the TransactionLog object under construction or built
    rendered,   \* the last value returned by to_string()
    exported    \* the last value returned by to_json()

storeVars == <<balance, ledger, nextId, clock>>
txVars == <<txs, pc, conn, pend, exc, result, failedAt, applied, snap, cur, fails>>
viewVars == <<view, rendered, exported>>
vars == <<balance, ledger, nextId, clock, txs, pc, conn, pend, exc, result,
          failedAt, applied, snap, cur, fails, view, rendered, exported>>

\* ------------------------------------------------------------ the store
Entry(id, s, r, a, why, ts) ==
    [id |-> id, sender |-> s, receiver |-> r, amount |-> a, reason |-> why, registered |-> ts]

NoPending == [rows |-> <<>>, writes |-> <<>>]

RECURSIVE InsertById(_, _)
InsertById(L, e) ==
    IF L = <<>> THEN <<e>>
    ELSE IF e.id < Head(L).id THEN <<e>> \o L
    ELSE <<Head(L)>> \o InsertById(Tail(L), e)

RECURSIVE ApplyRows(_, _)
ApplyRows(L, rows) ==
    IF rows = <<>> THEN L ELSE ApplyRows(InsertById(L, Head(rows)), Tail(rows))

RECURSIVE ApplyWrites(_, _)
ApplyWrites(b, writes) ==
    IF writes = <<>> THEN b
    ELSE ApplyWrites([b EXCEPT ![Head(writes)[1]] = Head(writes)[2]], Tail(writes))

\* a row updated in an open connection stays locked until that connection ends
RowLockedByOther(t, uid) ==
    \E o \in Txs \ {t} : \E i \in 1..Len(pend[o].writes) : pend[o].writes[i][1] = uid

\* user.BaseBotUser.get_tid_from_uid: the Telegram id of a known user, else None
get_tid_from_uid(uid) == IF uid \in Users THEN uid ELSE NoTid

\* user.MateBotUser(uid).balance, BaseBotUser.update(): the stored balance
ReadBalance(uid) == IF uid \in Users THEN balance[uid] ELSE 0

\* ------------------------------------------------------- the Transaction
NoTx == [alive |-> FALSE, src |-> NotAUser, dst |-> NotAUser, srcBal |-> 0, dstBal |-> 0,
         amount |-> 0, reason |-> None, committed |-> FALSE, id |-> NoId]

NoRender == [called |-> FALSE, raised |-> FALSE, text |-> <<>>]

NoExport == [called |-> FALSE, zone |-> 0, list |-> <<>>]

NoView == [pc |-> None, uid |-> 0, mode |-> 0, rows |-> 0, log |-> <<>>,
           valid |-> None, current |-> 0]

StoreSteps == {"update_src", "update_dst", "insert", "last_id", "upd_src_bal",
               "upd_dst_bal", "conn_commit", "post_src", "post_dst"}
AtomicSteps == {"insert", "last_id", "upd_src_bal", "upd_dst_bal", "conn_commit"}

InCommit(t) == pc[t] \notin {"unborn", "idle", "returned"}
NoCommitRunning == \A t \in Txs : ~InCommit(t)

Init ==
    /\ balance = [u \in Users |-> 0]
    /\ ledger = <<>>
    /\ nextId = 1
    /\ clock = 1
    /\ txs = [t \in Txs |-> NoTx]
    /\ pc = [t \in Txs |-> "unborn"]
    /\ conn = [t \in Txs |-> None]
    /\ pend = [t \in Txs |-> NoPending]
    /\ exc = [t \in Txs |-> None]
    /\ result = [t \in Txs |-> None]
    /\ failedAt = [t \in Txs |-> None]
    /\ applied = [t \in Txs |-> 0]
    /\ snap = [balance |-> [u \in Users |-> 0], ledger |-> <<>>]
    /\ cur = 0
    /\ fails = 0
    /\ view = NoView
    /\ rendered = NoRender
    /\ exported = NoExport

\* __init__ rejecting negative amounts only
Construct_zero_accepted(t, s, d, a, why) ==
    /\ pc[t] = "unborn"
    /\ \A o \in Txs : o < t => pc[o] # "unborn"
    /\ view.pc = None
    /\ IF a < 0
       THEN /\ result' = [result EXCEPT ![t] = "ValueError"]
            /\ UNCHANGED <<txs, pc>>
       ELSE IF s = NotAUser \/ d = NotAUser
       THEN /\ result' = [result EXCEPT ![t] = "TypeError"]
            /\ UNCHANGED <<txs, pc>>
       ELSE /\ txs' = [txs EXCEPT ![t] =
                         [alive |-> TRUE, src |-> s, dst |-> d, srcBal |-> ReadBalance(s),
                          dstBal |-> ReadBalance(d), amount |-> a, reason |-> why,
                          committed |-> FALSE, id |-> NoId]]
            /\ pc' = [pc EXCEPT ![t] = "idle"]
            /\ result' = [result EXCEPT ![t] = None]
    /\ UNCHANGED <<storeVars, conn, pend, exc, failedAt, applied, snap, cur, fails, viewVars>>

\* the two checks of __init__ in the other order
Construct_typefirst(t, s, d, a, why) ==
    /\ pc[t] = "unborn"
    /\ \A o \in Txs : o < t => pc[o] # "unborn"
    /\ view.pc = None
    /\ IF s = NotAUser \/ d = NotAUser
       THEN /\ result' = [result EXCEPT ![t] = "TypeError"]
            /\ UNCHANGED <<txs, pc>>
       ELSE IF a <= 0
       THEN /\ result' = [result EXCEPT ![t] = "ValueError"]
            /\ UNCHANGED <<txs, pc>>
       ELSE /\ txs' = [txs EXCEPT ![t] =
                         [alive |-> TRUE, src |-> s, dst |-> d, srcBal |-> ReadBalance(s),
                          dstBal |-> ReadBalance(d), amount |-> a, reason |-> why,
                          committed |-> FALSE, id |-> NoId]]
            /\ pc' = [pc EXCEPT ![t] = "idle"]
            /\ result' = [result EXCEPT ![t] = None]
    /\ UNCHANGED <<storeVars, conn, pend, exc, failedAt, applied, snap, cur, fails, viewVars>>

\* Transaction.__init__; s and d are account objects, named by their uid, that
\* were just read from the store, or NotAUser; s = d is the same object twice
\* (Transaction objects are numbered in the order they are built; a TransactionLog
\* is dropped before the next Transaction is built or committed)
\* the amount argument a is an integer, as declared, so int(amount) is a itself
Construct(t, s, d, a, why) ==
    /\ pc[t] = "unborn"
    /\ \A o \in Txs : o < t => pc[o] # "unborn"
    /\ view.pc = None
    /\ IF a <= 0
       THEN /\ result' = [result EXCEPT ![t] = "ValueError"]
            /\ UNCHANGED <<txs, pc>>
       ELSE IF s = NotAUser \/ d = NotAUser
       THEN /\ result' = [result EXCEPT ![t] = "TypeError"]
            /\ UNCHANGED <<txs, pc>>
       ELSE /\ txs' = [txs EXCEPT ![t] =
                         [alive |-> TRUE, src |-> s, dst |-> d, srcBal |-> ReadBalance(s),
                          dstBal |-> ReadBalance(d), amount |-> a, reason |-> why,
                          committed |-> FALSE, id |-> NoId]]
            /\ pc' = [pc EXCEPT ![t] = "idle"]
            /\ result' = [result EXCEPT ![t] = None]
    /\ UNCHANGED <<storeVars, conn, pend, exc, failedAt, applied, snap, cur, fails, viewVars>>

\* get() returning the id without looking at the committed flag
Get_unchecked(t) == txs[t].id

\* Transaction.get
Get(t) == IF txs[t].committed THEN txs[t].id ELSE NoId

\* the guard left out: every call does the work
MayCommit_always(t) == TRUE

\* commit(): the guard `not self._committed and self._id is None`
MayCommit(t) == ~txs[t].committed /\ txs[t].id = NoId

\* commit(): the checks and the guard before the try block
CommitCall(t) ==
    /\ pc[t] \in {"idle", "returned"}
    /\ view.pc = None
    /\ cur' = t
    /\ snap' = [balance |-> balance, ledger |-> ledger]
    /\ exc' = [exc EXCEPT ![t] = None]
    /\ conn' = [conn EXCEPT ![t] = None]
    /\ IF txs[t].amount <= 0
       THEN /\ result' = [result EXCEPT ![t] = "RuntimeError"]
            /\ pc' = [pc EXCEPT ![t] = "returned"]
       ELSE IF MayCommit(t)
       THEN /\ result' = [result EXCEPT ![t] = "running"]
            /\ pc' = [pc EXCEPT ![t] = "update_src"]
       ELSE /\ result' = [result EXCEPT ![t] = "noop"]
            /\ pc' = [pc EXCEPT ![t] = "returned"]
    /\ UNCHANGED <<storeVars, txs, pend, failedAt, applied, fails, viewVars>>

\* BaseBotUser.update() of the source object (the destination is the same object
\* when the Transaction was built with one object twice)
RefreshSrc(t) ==
    [txs EXCEPT ![t].srcBal = ReadBalance(txs[t].src),
                ![t].dstBal = IF txs[t].dst = txs[t].src THEN ReadBalance(txs[t].src) ELSE @]

RefreshDst(tx, t) ==
    [tx EXCEPT ![t].dstBal = ReadBalance(tx[t].dst),
               ![t].srcBal = IF tx[t].dst = tx[t].src THEN ReadBalance(tx[t].dst) ELSE @]

\* commit() without the update() of the source before the writes
UpdateSrc_norefresh(t) ==
    /\ pc[t] = "update_src"
    /\ pc' = [pc EXCEPT ![t] = "update_dst"]
    /\ UNCHANGED <<storeVars, txs, conn, pend, exc, result, failedAt, applied, snap, cur,
                   fails, viewVars>>

\* self._src.update()
UpdateSrc(t) ==
    /\ pc[t] = "update_src"
    /\ txs' = RefreshSrc(t)
    /\ pc' = [pc EXCEPT ![t] = "update_dst"]
    /\ UNCHANGED <<storeVars, conn, pend, exc, result, failedAt, applied, snap, cur, fails,
                   viewVars>>

\* self._dst.update()
UpdateDst(t) ==
    /\ pc[t] = "update_dst"
    /\ txs' = RefreshDst(txs, t)
    /\ pc' = [pc EXCEPT ![t] = "insert"]
    /\ UNCHANGED <<storeVars, conn, pend, exc, result, failedAt, applied, snap, cur, fails,
                   viewVars>>

\* INSERT INTO transactions, in a new connection
Insert(t) ==
    /\ pc[t] = "insert"
    /\ conn' = [conn EXCEPT ![t] = "open"]
    /\ pend' = [pend EXCEPT ![t].rows =
                  <<Entry(nextId, txs[t].src, txs[t].dst, txs[t].amount, txs[t].reason,
                          clock)>>]
    /\ nextId' = nextId + 1
    /\ clock' = clock + 1
    /\ pc' = [pc EXCEPT ![t] = "last_id"]
    /\ UNCHANGED <<balance, ledger, txs, exc, result, failedAt, applied, snap, cur, fails,
                   viewVars>>

\* SELECT LAST_INSERT_ID()
LastInsertId(t) ==
    /\ pc[t] = "last_id"
    /\ txs' = [txs EXCEPT ![t].id = pend[t].rows[1].id]
    /\ pc' = [pc EXCEPT ![t] = "upd_src_bal"]
    /\ UNCHANGED <<storeVars, conn, pend, exc, result, failedAt, applied, snap, cur, fails,
                   viewVars>>

\* the UPDATE run by execute(), which commits it at once, instead of execute_no_commit()
UpdateSrcBalance_autocommit(t) ==
    /\ pc[t] = "upd_src_bal"
    /\ ~RowLockedByOther(t, txs[t].src)
    /\ balance' = [balance EXCEPT ![txs[t].src] = txs[t].srcBal - txs[t].amount]
    /\ pc' = [pc EXCEPT ![t] = "upd_dst_bal"]
    /\ UNCHANGED <<ledger, nextId, clock, txs, conn, pend, exc, result, failedAt, applied,
                   snap, cur, fails, viewVars>>

\* UPDATE users SET balance = src.balance - amount
UpdateSrcBalance(t) ==
    /\ pc[t] = "upd_src_bal"
    /\ ~RowLockedByOther(t, txs[t].src)
    /\ pend' = [pend EXCEPT ![t].writes =
                  Append(@, <<txs[t].src, txs[t].srcBal - txs[t].amount>>)]
    /\ pc' = [pc EXCEPT ![t] = "upd_dst_bal"]
    /\ UNCHANGED <<storeVars, txs, conn, exc, result, failedAt, applied, snap, cur, fails,
                   viewVars>>

\* UPDATE users SET balance = dst.balance + amount
UpdateDstBalance(t) ==
    /\ pc[t] = "upd_dst_bal"
    /\ ~RowLockedByOther(t, txs[t].dst)
    /\ pend' = [pend EXCEPT ![t].writes =
                  Append(@, <<txs[t].dst, txs[t].dstBal + txs[t].amount>>)]
    /\ pc' = [pc EXCEPT ![t] = "conn_commit"]
    /\ UNCHANGED <<storeVars, txs, conn, exc, result, failedAt, applied, snap, cur, fails,
                   viewVars>>

\* connection.commit()
ConnCommit(t) ==
    /\ pc[t] = "conn_commit"
    /\ ledger' = ApplyRows(ledger, pend[t].rows)
    /\ balance' = ApplyWrites(balance, pend[t].writes)
    /\ pend' = [pend EXCEPT ![t] = NoPending]
    /\ applied' = [applied EXCEPT ![t] = @ + 1]
    /\ pc' = [pc EXCEPT ![t] = "post_src"]
    /\ UNCHANGED <<nextId, clock, txs, conn, exc, result, failedAt, snap, cur, fails,
                   viewVars>>

\* self._src.update() after the commit
PostUpdateSrc(t) ==
    /\ pc[t] = "post_src"
    /\ txs' = RefreshSrc(t)
    /\ pc' = [pc EXCEPT ![t] = "post_dst"]
    /\ UNCHANGED <<storeVars, conn, pend, exc, result, failedAt, applied, snap, cur, fails,
                   viewVars>>

\* self._dst.update() after the commit, then self._committed = True
PostUpdateDst(t) ==
    /\ pc[t] = "post_dst"
    /\ txs' = [RefreshDst(txs, t) EXCEPT ![t].committed = TRUE]
    /\ pc' = [pc EXCEPT ![t] = "finally"]
    /\ UNCHANGED <<storeVars, conn, pend, exc, result, failedAt, applied, snap, cur, fails,
                   viewVars>>

\* a store step raises: control passes to the finally block
StoreFailure(t) ==
    /\ pc[t] \in StoreSteps
    /\ fails < MaxFail
    /\ fails' = fails + 1
    /\ exc' = [exc EXCEPT ![t] = "StoreError"]
    /\ failedAt' = [failedAt EXCEPT ![t] = pc[t]]
    /\ pc' = [pc EXCEPT ![t] = "finally"]
    /\ UNCHANGED <<storeVars, txs, conn, pend, result, applied, snap, cur, viewVars>>

\* the INSERT raises inside execute_no_commit() after the connection was opened:
\* the assignment to `connection` of line 131 does not take place
InsertFailure(t) ==
    /\ pc[t] = "insert"
    /\ fails < MaxFail
    /\ fails' = fails + 1
    /\ conn' = [conn EXCEPT ![t] = "unbound"]
    /\ exc' = [exc EXCEPT ![t] = "StoreError"]
    /\ failedAt' = [failedAt EXCEPT ![t] = pc[t]]
    /\ pc' = [pc EXCEPT ![t] = "finally"]
    /\ UNCHANGED <<storeVars, txs, pend, result, applied, snap, cur, viewVars>>

\* finally: if connection: connection.close(); then the call returns or raises
Finally(t) ==
    /\ pc[t] = "finally"
    /\ conn' = [conn EXCEPT ![t] = IF @ = "open" THEN "closed" ELSE @]
    /\ pend' = [pend EXCEPT ![t] = NoPending]
    /\ result' = [result EXCEPT ![t] = IF exc[t] = None THEN "ok" ELSE "raised"]
    /\ pc' = [pc EXCEPT ![t] = "returned"]
    /\ UNCHANGED <<storeVars, txs, exc, failedAt, applied, snap, cur, fails, viewVars>>

CommitWork(t) ==
    \/ UpdateSrc(t)
    \/ UpdateDst(t)
    \/ Insert(t)
    \/ LastInsertId(t)
    \/ UpdateSrcBalance(t)
    \/ UpdateDstBalance(t)
    \/ ConnCommit(t)
    \/ PostUpdateSrc(t)
    \/ PostUpdateDst(t)
    \/ Finally(t)

\* ---------------------------------------------------- the TransactionLog
\* the uid argument: an int, a BaseBotUser object, or something else
LogArgs == {[kind |-> "int", v |-> u] : u \in Uids}
              \cup {[kind |-> "user", v |-> u] : u \in Users}
              \cup {[kind |-> "other", v |-> NotAUser]}

\* the two one-sided queries exchanged
Query_swapped(L, uid, mode) ==
    IF mode < 0 THEN SelectSeq(L, LAMBDA e : e.receiver = uid)
    ELSE IF mode > 0 THEN SelectSeq(L, LAMBDA e : e.sender = uid)
    ELSE SelectSeq(L, LAMBDA e : e.sender = uid \/ e.receiver = uid)

\* the SELECT of _db.execute, by the mode
Query(L, uid, mode) ==
    IF mode < 0 THEN SelectSeq(L, LAMBDA e : e.sender = uid)
    ELSE IF mode > 0 THEN SelectSeq(L, LAMBDA e : e.receiver = uid)
    ELSE SelectSeq(L, LAMBDA e : e.sender = uid \/ e.receiver = uid)

\* TransactionLog.__init__ up to the query
LogQuery(arg, mode) ==
    /\ view.pc = None
    /\ IF arg.kind = "other"
       THEN view' = [NoView EXCEPT !.pc = "raised", !.valid = "TypeError"]
       ELSE LET uid == arg.v
                q == Query(ledger, uid, mode)
            IN view' = [NoView EXCEPT !.pc = "queried", !.uid = uid, !.mode = mode,
                                      !.rows = Len(q), !.log = q]
    /\ UNCHANGED <<storeVars, txVars, rendered, exported>>

\* TransactionLog.__init__ up to the query, over a store whose SELECT is miswired:
\* it answers with the rows of the account `other`
LogQueryMiswired(arg, mode, other) ==
    /\ view.pc = None
    /\ arg.kind # "other"
    /\ other # arg.v
    /\ LET uid == arg.v
           q == Query(ledger, other, mode)
       IN view' = [NoView EXCEPT !.pc = "queried", !.uid = uid, !.mode = mode,
                                 !.rows = Len(q), !.log = q]
    /\ UNCHANGED <<storeVars, txVars, rendered, exported>>

\* the loop with the two directions exchanged
RECURSIVE ValidateLoop_swapped(_, _, _)
ValidateLoop_swapped(log, uid, start) ==
    IF log = <<>> THEN [raised |-> FALSE, value |-> start]
    ELSE IF Head(log).receiver = uid
    THEN ValidateLoop_swapped(Tail(log), uid, start - Head(log).amount)
    ELSE IF Head(log).sender = uid
    THEN ValidateLoop_swapped(Tail(log), uid, start + Head(log).amount)
    ELSE [raised |-> TRUE, value |-> start]

\* the loop of TransactionLog.validate: the recomputed balance, or the fault
RECURSIVE ValidateLoop(_, _, _)
ValidateLoop(log, uid, start) ==
    IF log = <<>> THEN [raised |-> FALSE, value |-> start]
    ELSE IF Head(log).receiver = uid
    THEN ValidateLoop(Tail(log), uid, start + Head(log).amount)
    ELSE IF Head(log).sender = uid
    THEN ValidateLoop(Tail(log), uid, start - Head(log).amount)
    ELSE [raised |-> TRUE, value |-> start]

\* validate() reconciling whatever the mode is
Validate_anymode(log, uid, mode, start, current) ==
    LET r == ValidateLoop(log, uid, start)
    IN IF r.raised THEN "RuntimeError"
       ELSE IF r.value = current THEN "True" ELSE "False"

\* validate() refusing an empty history
Validate_nonempty(log, uid, mode, start, current) ==
    IF mode # 0 THEN None
    ELSE IF log = <<>> THEN "False"
    ELSE LET r == ValidateLoop(log, uid, start)
         IN IF r.raised THEN "RuntimeError"
            ELSE IF r.value = current THEN "True" ELSE "False"

\* TransactionLog.validate: "None", "True", "False" or "RuntimeError"
Validate(log, uid, mode, start, current) ==
    IF mode # 0 THEN None
    ELSE LET r == ValidateLoop(log, uid, start)
         IN IF r.raised THEN "RuntimeError"
            ELSE IF r.value = current THEN "True" ELSE "False"

\* the check for an unknown account left out
LogFinish_unchecked ==
    /\ view.pc = "queried"
    /\ LET current == IF view.mode = 0 THEN ReadBalance(view.uid) ELSE 0
           v == Validate(view.log, view.uid, view.mode, 0, current)
       IN view' = [view EXCEPT !.pc = IF v = "RuntimeError" THEN "raised" ELSE "done",
                               !.valid = v, !.current = current]
    /\ UNCHANGED <<storeVars, txVars, rendered, exported>>

\* TransactionLog.__init__ after the query: self._valid
LogFinish ==
    /\ view.pc = "queried"
    /\ LET resolvable == ~(view.rows = 0 /\ get_tid_from_uid(view.uid) = NoTid)
           current == IF resolvable /\ view.mode = 0 THEN ReadBalance(view.uid) ELSE 0
           v == IF resolvable THEN Validate(view.log, view.uid, view.mode, 0, current)
                ELSE "False"
       IN view' = [view EXCEPT !.pc = IF v = "RuntimeError" THEN "raised" ELSE "done",
                               !.valid = v, !.current = current]
    /\ UNCHANGED <<storeVars, txVars, rendered, exported>>

\* the TransactionLog object is dropped
LogRelease ==
    /\ view.pc \in {"done", "raised"}
    /\ view' = NoView
    /\ rendered' = NoRender
    /\ exported' = NoExport
    /\ UNCHANGED <<storeVars, txVars>>

\* user.BaseBotUser.get_name_from_uid
get_name_from_uid(uid) == uid

\* one line of to_string: the fields handed to format()
Line(entry, uid, localized, zone) ==
    [time |-> IF localized THEN entry.registered + zone ELSE entry.registered,
     amount |-> IF entry.receiver = uid THEN entry.amount ELSE -entry.amount,
     direction |-> IF entry.receiver = uid THEN "<<" ELSE ">>",
     partner |-> get_name_from_uid(IF entry.receiver = uid THEN entry.sender
                                   ELSE entry.receiver),
     reason |-> IF entry.reason = None THEN DEFAULT_NULL_REASON_REPLACE ELSE entry.reason]

RECURSIVE ToStringLines(_, _, _, _)
ToStringLines(log, uid, localized, zone) ==
    IF log = <<>> THEN [raised |-> FALSE, lines |-> <<>>]
    ELSE IF Head(log).receiver # uid /\ Head(log).sender # uid
    THEN [raised |-> TRUE, lines |-> <<>>]
    ELSE LET rest == ToStringLines(Tail(log), uid, localized, zone)
         IN [raised |-> rest.raised,
             lines |-> IF rest.raised THEN <<>>
                       ELSE <<Line(Head(log), uid, localized, zone)>> \o rest.lines]

EmptyString == <<>>

\* TransactionLog.to_string: the lines joined, "" when there are none
to_string(log, uid, localized, zone) ==
    LET r == ToStringLines(log, uid, localized, zone)
    IN IF r.raised THEN [raised |-> TRUE, text |-> EmptyString]
       ELSE IF Len(r.lines) > 0 THEN [raised |-> FALSE, text |-> r.lines]
       ELSE [raised |-> FALSE, text |-> EmptyString]

ToStringCall(localized, zone) ==
    /\ view.pc = "done"
    /\ LET r == to_string(view.log, view.uid, localized, zone)
       IN rendered' = [called |-> TRUE, raised |-> r.raised, text |-> r.text]
    /\ UNCHANGED <<storeVars, txVars, view, exported>>

\* datetime.timestamp() of a naive datetime: the wall-clock reading is taken as
\* local time, so the epoch value is the reading less the local zone's UTC offset
timestamp(naive, zone) == naive - zone

\* TransactionLog.to_json: a copy of every entry with registered replaced by
\* int(registered.timestamp()); zone is the UTC offset of the process's local zone
RECURSIVE to_json(_, _)
to_json(log, zone) ==
    IF log = <<>> THEN <<>>
    ELSE <<[Head(log) EXCEPT !.registered = timestamp(Head(log).registered, zone)]>>
         \o to_json(Tail(log), zone)

ToJsonCall(zone) ==
    /\ view.pc = "done"
    /\ exported' = [called |-> TRUE, zone |-> zone, list |-> to_json(view.log, zone)]
    /\ UNCHANGED <<storeVars, txVars, view, rendered>>

\* ------------------------------------------------------- specifications
\* commit() calls and views run one after another
Next ==
    \/ \E t \in Txs, s, d \in Users \cup {NotAUser}, a \in Amounts, why \in TxReasons :
          NoCommitRunning /\ Construct(t, s, d, a, why)
    \/ \E t \in Txs : NoCommitRunning /\ CommitCall(t)
    \/ \E t \in Txs : CommitWork(t)
    \/ \E t \in Txs : StoreFailure(t)
    \/ \E t \in Txs : InsertFailure(t)
    \/ \E arg \in LogArgs, mode \in Modes : NoCommitRunning /\ LogQuery(arg, mode)
    \/ LogFinish
    \/ LogRelease
    \/ \E localized \in BOOLEAN, zone \in Zones : ToStringCall(localized, zone)

Spec == Init /\ [][Next]_vars

\* commit() calls of different Transactions and views interleave step by step
NextConc ==
    \/ \E t \in Txs, s, d \in Users \cup {NotAUser}, a \in Amounts, why \in TxReasons :
          Construct(t, s, d, a, why)
    \/ \E t \in Txs : CommitCall(t)
    \/ \E t \in Txs : CommitWork(t)
    \/ \E arg \in LogArgs, mode \in Modes : LogQuery(arg, mode)
    \/ LogFinish
    \/ LogRelease

SpecConc == Init /\ [][NextConc]_vars

\* views over any content of the store
InitLog ==
    /\ balance \in [Users -> (-MaxBal)..MaxBal]
    /\ \E n \in 0..MaxLedger :
         \E f \in [1..n -> (Users \X Users \X (1..MaxAmount) \X Reasons)] :
            ledger = [i \in 1..n |-> Entry(i, f[i][1], f[i][2], f[i][3], f[i][4], i)]
    /\ nextId = Len(ledger) + 1
    /\ clock = Len(ledger) + 1
    /\ txs = [t \in Txs |-> NoTx]
    /\ pc = [t \in Txs |-> "unborn"]
    /\ conn = [t \in Txs |-> None]
    /\ pend = [t \in Txs |-> NoPending]
    /\ exc = [t \in Txs |-> None]
    /\ result = [t \in Txs |-> None]
    /\ failedAt = [t \in Txs |-> None]
    /\ applied = [t \in Txs |-> 0]
    /\ snap = [balance |-> balance, ledger |-> ledger]
    /\ cur = 0
    /\ fails = 0
    /\ view = NoView
    /\ rendered = NoRender
    /\ exported = NoExport

NextLog ==
    \/ \E arg \in LogArgs, mode \in Modes : LogQuery(arg, mode)
    \/ LogFinish
    \/ LogRelease
    \/ \E localized \in BOOLEAN, zone \in Zones : ToStringCall(localized, zone)
    \/ \E zone \in Zones : ToJsonCall(zone)

SpecLog == InitLog /\ [][NextLog]_vars

\* views over any content of a store whose query may be miswired
NextFault ==
    \/ \E arg \in LogArgs, mode \in Modes : LogQuery(arg, mode)
    \/ \E arg \in LogArgs, mode \in Modes, other \in Users : LogQueryMiswired(arg, mode, other)
    \/ LogFinish
    \/ LogRelease
    \/ \E localized \in BOOLEAN, zone \in Zones : ToStringCall(localized, zone)

SpecFault == InitLog /\ [][NextFault]_vars

\* ------------------------------------------------------------- claims
SelfTransfer(t) == txs[t].src = txs[t].dst

\* a commit() call of t has returned and no other commit() call began since
JustReturned(t) == pc[t] = "returned" /\ cur = t

\* C1. Conservation: when a commit() call has succeeded, the destination's stored
\* balance has grown by amount and the source's has shrunk by amount since the call
\* began, and amount > 0, for every Transaction the constructor accepts.
C1_Conservation ==
    \A t \in Txs :
        (JustReturned(t) /\ result[t] = "ok") =>
            /\ txs[t].amount > 0
            /\ balance[txs[t].dst] - snap.balance[txs[t].dst] = txs[t].amount
            /\ balance[txs[t].src] - snap.balance[txs[t].src] = -txs[t].amount

\* C2. Atomicity: a commit() call that ends with a failure of the INSERT, of the
\* LAST_INSERT_ID lookup, of a balance UPDATE or of connection.commit() leaves both
\* stored balances and the ledger as they were when the call began; and the stored
\* balances and the ledger change only in a connection.commit() step, which adds one
\* ledger entry and changes the balances of the source and of the destination.
C2_AtomicityStep ==
    /\ \A t \in Txs :
          (pc[t] = "finally" /\ pc'[t] = "returned" /\ exc[t] # None
             /\ failedAt[t] \in AtomicSteps)
          => (balance' = snap.balance /\ ledger' = snap.ledger)
    /\ (balance' # balance \/ ledger' # ledger) =>
          \E t \in Txs :
             /\ pc[t] = "conn_commit" /\ pc'[t] = "post_src"
             /\ Len(ledger') = Len(ledger) + 1
             /\ balance'[txs[t].src] # balance[txs[t].src]
             /\ balance'[txs[t].dst] # balance[txs[t].dst]

C2_Atomicity == [][C2_AtomicityStep]_vars

C2_Witness ==
    \E t \in Txs : pc[t] = "returned" /\ result[t] = "raised" /\ failedAt[t] = "conn_commit"
                   /\ ledger # <<>>

\* C3. Idempotent commit: once a Transaction is committed it has finalized exactly one
\* atomic unit and the ledger holds exactly one entry with its id, however many
\* commit() calls follow; a later call does no store work (it never leaves the guard),
\* does not raise, and leaves the store as it was.
EntriesWithId(id) == {i \in 1..Len(ledger) : ledger[i].id = id}

C3_IdempotentCommit ==
    \A t \in Txs :
        txs[t].committed =>
            /\ applied[t] = 1
            /\ Cardinality(EntriesWithId(txs[t].id)) = 1
            /\ pc[t] \in {"finally", "returned"}
            /\ result[t] \in {"running", "ok", "noop"}
            /\ (JustReturned(t) /\ result[t] = "noop")
                  => (balance = snap.balance /\ ledger = snap.ledger)

C3_Witness ==
    \E t \in Txs : txs[t].committed /\ JustReturned(t) /\ result[t] = "noop"

\* the signed sum of the ledger for an account: +amount for every entry naming it as
\* receiver, -amount for every entry naming it as sender
RECURSIVE SignedSum(_, _)
SignedSum(L, u) ==
    IF L = <<>> THEN 0
    ELSE (IF Head(L).receiver = u THEN Head(L).amount ELSE 0)
         - (IF Head(L).sender = u THEN Head(L).amount ELSE 0)
         + SignedSum(Tail(L), u)

\* C4. Balance equals history: whenever no commit() call is running, every account's
\* stored balance equals the signed sum of the ledger entries naming it.
C4_BalanceEqualsHistory ==
    NoCommitRunning => \A u \in Users : balance[u] = SignedSum(ledger, u)

\* the signed amount of Transaction t for account u
Signed(t, u) ==
    (IF txs[t].dst = u THEN txs[t].amount ELSE 0) - (IF txs[t].src = u THEN txs[t].amount ELSE 0)

\* C5. No lost update: once two Transactions between distinct accounts that share an
\* account have both committed (and no other has), the shared account's stored balance
\* is the initial 0 plus the signed amounts of both, and the ledger holds both entries.
C5_NoLostUpdate ==
    \A t1, t2 \in Txs :
        (/\ t1 # t2
         /\ txs[t1].committed /\ txs[t2].committed
         /\ ~SelfTransfer(t1) /\ ~SelfTransfer(t2)
         /\ \A o \in Txs \ {t1, t2} : applied[o] = 0)
        => \A u \in {txs[t1].src, txs[t1].dst} \cap {txs[t2].src, txs[t2].dst} :
              /\ balance[u] = Signed(t1, u) + Signed(t2, u)
              /\ EntriesWithId(txs[t1].id) # {} /\ EntriesWithId(txs[t2].id) # {}

\* C6. Retryable after failure: when a commit() call failed at a store step of the
\* atomic unit and a later commit() call on the same Transaction has returned without
\* raising, the Transaction is committed and has finalized exactly one atomic unit.
C6_Retryable ==
    \A t \in Txs :
        (pc[t] = "returned" /\ failedAt[t] \in AtomicSteps /\ result[t] \in {"ok", "noop"})
        => (txs[t].committed /\ applied[t] = 1)

\* the balance recomputed from a history: what the account received minus what it
\* sent (an entry naming it on both sides is seen by the fold as received)
RECURSIVE Received(_, _)
Received(L, u) ==
    IF L = <<>> THEN 0
    ELSE (IF Head(L).receiver = u THEN Head(L).amount ELSE 0) + Received(Tail(L), u)

RECURSIVE Sent(_, _)
Sent(L, u) ==
    IF L = <<>> THEN 0
    ELSE (IF Head(L).sender = u /\ Head(L).receiver # u THEN Head(L).amount ELSE 0)
         + Sent(Tail(L), u)

Recomputed(L, u) == 0 + Received(L, u) - Sent(L, u)

Resolves(uid) == uid \in Users

\* C7. Validity verdict in mode 0: for a TransactionLog built with mode 0, valid is
\* True exactly when the account resolves or has a fetched entry, and the baseline 0
\* plus the fold over the fetched entries equals the account's stored balance;
\* otherwise it is False.
C7_ValidityVerdict ==
    (view.pc = "done" /\ view.mode = 0) =>
        /\ view.valid \in {"True", "False"}
        /\ (view.valid = "True") <=>
              (/\ Resolves(view.uid) \/ Len(view.log) > 0
               /\ Recomputed(view.log, view.uid) = ReadBalance(view.uid))

\* entries [(receiver, 2), (sender, 1)] and a stored balance of 1
C7_Witness ==
    /\ view.pc = "done" /\ view.mode = 0 /\ Len(view.log) = 2
    /\ view.log[1].receiver = view.uid /\ view.log[1].sender # view.uid
    /\ view.log[1].amount = 2
    /\ view.log[2].sender = view.uid /\ view.log[2].receiver # view.uid
    /\ view.log[2].amount = 1
    /\ balance[view.uid] = 1
    /\ view.valid = "True"

NoEntryNames(uid) ==
    \A i \in 1..Len(ledger) : ledger[i].sender # uid /\ ledger[i].receiver # uid

\* C8. Empty history, known account: a TransactionLog built (in the default mode 0)
\* for an existing account that no ledger entry names has valid True, and to_string()
\* of a TransactionLog of such an account, in any mode, returns the empty string.
C8_EmptyHistoryKnown ==
    (view.pc = "done" /\ Resolves(view.uid) /\ NoEntryNames(view.uid)) =>
        /\ view.mode = 0 => view.valid = "True"
        /\ rendered.called => (~rendered.raised /\ rendered.text = EmptyString)
        /\ \A localized \in BOOLEAN, zone \in Zones :
              to_string(view.log, view.uid, localized, zone).text = EmptyString

C8_Witness ==
    /\ view.pc = "done" /\ view.mode = 0 /\ Resolves(view.uid) /\ NoEntryNames(view.uid)
    /\ ledger # <<>>
    /\ view.valid = "True"
    /\ rendered.called /\ rendered.text = EmptyString

\* C9. Empty history, unknown account: a TransactionLog built for an account id that
\* does not resolve, whose query returned no rows, is built without raising and has
\* valid False, in every mode.
C9_EmptyHistoryUnknown ==
    (view.pc \in {"done", "raised"} /\ view.valid # "TypeError"
       /\ ~Resolves(view.uid) /\ view.rows = 0)
    => (view.pc = "done" /\ view.valid = "False")

C9_Witness ==
    /\ view.pc = "done" /\ view.uid = UnknownUid /\ view.rows = 0 /\ view.mode > 0
    /\ view.valid = "False" /\ ledger # <<>>

Wanted(e, uid, mode) ==
    \/ mode < 0 /\ e.sender = uid
    \/ mode > 0 /\ e.receiver = uid
    \/ mode = 0 /\ (e.sender = uid \/ e.receiver = uid)

RECURSIVE Keep(_, _, _)
Keep(L, uid, mode) ==
    IF L = <<>> THEN <<>>
    ELSE (IF Wanted(Head(L), uid, mode) THEN <<Head(L)>> ELSE <<>>) \o Keep(Tail(L), uid, mode)

\* C10. Directional filtering: history holds exactly the ledger entries with
\* sender = uid when mode < 0, with receiver = uid when mode > 0, and with either when
\* mode = 0, in the store's order; in mode 0, for a known account, valid tells whether
\* the balance recomputed over all of them equals the stored balance.
C10_DirectionalFiltering ==
    (view.pc \in {"queried", "done"}) =>
        /\ view.log = Keep(ledger, view.uid, view.mode)
        /\ view.rows = Len(view.log)
        /\ (view.pc = "done" /\ view.mode = 0 /\ Resolves(view.uid)) =>
              ((view.valid = "True") <=>
                 (Recomputed(Keep(ledger, view.uid, 0), view.uid) = balance[view.uid]))

\* the account is sender once and receiver once; the outgoing view holds one entry
C10_Witness ==
    /\ view.pc = "done" /\ view.mode < 0 /\ Len(ledger) = 2
    /\ ledger[1].receiver = view.uid /\ ledger[1].sender # view.uid
    /\ ledger[2].sender = view.uid /\ ledger[2].receiver # view.uid
    /\ view.log = <<ledger[2]>>

\* C11. Rejection at construction: Transaction(s, d, a) with a <= 0 fails with
\* ValueError, and with a > 0 and s or d not an account object fails with TypeError;
\* in both cases no Transaction object results; and no construction, failed or
\* successful, changes the ledger or a stored balance.
C11_RejectionStep ==
    \A t \in Txs, s, d \in Users \cup {NotAUser}, a \in Amounts, why \in TxReasons :
        Construct(t, s, d, a, why) =>
            /\ balance' = balance /\ ledger' = ledger
            /\ a <= 0 => (result'[t] = "ValueError" /\ pc'[t] = "unborn" /\ txs'[t] = NoTx)
            /\ (a > 0 /\ (s = NotAUser \/ d = NotAUser)) =>
                  (result'[t] = "TypeError" /\ pc'[t] = "unborn" /\ txs'[t] = NoTx)
            /\ (a > 0 /\ s # NotAUser /\ d # NotAUser) =>
                  (pc'[t] = "idle" /\ txs'[t].alive /\ ~txs'[t].committed)

C11_Rejection == [][C11_RejectionStep]_vars

\* a construction rejected for its amount after an earlier Transaction was committed
C11_Witness ==
    \E t \in Txs : result[t] = "ValueError" /\ pc[t] = "unborn" /\ ledger # <<>>

HasForeign(log, uid) ==
    \E i \in 1..Len(log) : log[i].sender # uid /\ log[i].receiver # uid

\* C12. Ledger consistency fault: when the fetched rows hold an entry whose sender and
\* receiver both differ from the target account id, the construction of the
\* TransactionLog ends with RuntimeError and no view results, in every mode.
C12_ConsistencyFault ==
    (view.pc \in {"done", "raised"} /\ view.valid # "TypeError"
       /\ HasForeign(view.log, view.uid))
    => (view.pc = "raised" /\ view.valid = "RuntimeError")

\* the same for mode 0 alone
C12_ConsistencyFaultMode0 ==
    (view.pc \in {"done", "raised"} /\ view.valid # "TypeError" /\ view.mode = 0
       /\ HasForeign(view.log, view.uid))
    => (view.pc = "raised" /\ view.valid = "RuntimeError")

\* the epoch seconds of a stored instant, the stored reading being UTC
EpochOfStored(registered) == registered

\* the entries of a returned list carry the raw amount and reason of the history
RawFields(list, log) ==
    /\ Len(list) = Len(log)
    /\ \A i \in 1..Len(log) :
          /\ list[i].amount = log[i].amount
          /\ list[i].reason = log[i].reason
          /\ list[i].id = log[i].id
          /\ list[i].sender = log[i].sender /\ list[i].receiver = log[i].receiver

\* C13. Rendering round-trip: every entry returned by to_json() has the raw stored
\* amount and reason (None stays None) and, as its timestamp, the epoch seconds of the
\* stored instant read as UTC, whatever the local time zone is; and to_json() leaves
\* the history as it was fetched.
C13_RoundTrip ==
    exported.called =>
        /\ RawFields(exported.list, view.log)
        /\ \A i \in 1..Len(view.log) :
              exported.list[i].registered = EpochOfStored(view.log[i].registered)
        /\ view.log = Keep(ledger, view.uid, view.mode)

\* the same with the local zone being UTC, and the raw fields in any zone
C13_RoundTripInUTC ==
    exported.called =>
        /\ RawFields(exported.list, view.log)
        /\ exported.zone = 0 =>
              \A i \in 1..Len(view.log) :
                 exported.list[i].registered = EpochOfStored(view.log[i].registered)
        /\ view.log = Keep(ledger, view.uid, view.mode)

\* the ledger holds the entry that the Transaction inserted
HoldsEntry(t) == txs[t].id # NoId /\ EntriesWithId(txs[t].id) # {}

\* C14. Committed flag matches the store: whenever no commit() call is running, a
\* Transaction is committed exactly when the store holds its ledger entry (and, with
\* it, its balance changes); and a commit() call that ended with a store failure, at
\* whichever step, has left the ledger and the balances as they were when it began.
C14_CommittedMatchesStore ==
    NoCommitRunning =>
        \A t \in Txs :
            /\ txs[t].committed <=> (HoldsEntry(t) /\ applied[t] = 1)
            /\ (JustReturned(t) /\ result[t] = "raised")
                  => (balance = snap.balance /\ ledger = snap.ledger)

\* the same, but for the calls that failed in an update() after connection.commit()
C14_CommittedMatchesStoreUpToCommit ==
    NoCommitRunning =>
        \A t \in Txs :
            failedAt[t] \notin {"post_src", "post_dst"} =>
                /\ txs[t].committed <=> (HoldsEntry(t) /\ applied[t] = 1)
                /\ (JustReturned(t) /\ result[t] = "raised")
                      => (balance = snap.balance /\ ledger = snap.ledger)

\* no Transaction but the one whose commit() call began last has ever been in commit()
OnlyCurCommits == cur # 0 /\ \A o \in Txs \ {cur} : pc[o] \in {"unborn", "idle"}

\* the view pairs the rows and the balance of one store state L, B
ReflectsStore(L, B) ==
    /\ view.log = Keep(L, view.uid, view.mode)
    /\ view.current = B[view.uid]

\* C15. View against an in-flight commit: a TransactionLog in mode 0 of an account
\* that the one commit() touches, built before, during or after that commit(), holds
\* the rows and the balance of the store as it was before the commit or as it is after
\* it, never the rows of one with the balance of the other; so for a transfer between
\* two distinct accounts, which leaves the store consistent, valid is True.
C15_ViewSeesOneState ==
    (/\ view.pc = "done" /\ view.mode = 0 /\ Resolves(view.uid)
     /\ OnlyCurCommits
     /\ view.uid \in {txs[cur].src, txs[cur].dst})
    => /\ ReflectsStore(snap.ledger, snap.balance) \/ ReflectsStore(ledger, balance)
       /\ ~SelfTransfer(cur) => view.valid = "True"

\* C16. History always validates after commits: from balances 0 and an empty ledger,
\* after any commit() calls run one after another (succeeding or failing, self-
\* transfers included), validate() of the mode 0 history of every existing account
\* gives True whenever no commit() call is running, and every TransactionLog built in
\* mode 0 for an existing account has valid True.
C16_HistoryValidates ==
    /\ NoCommitRunning =>
          \A u \in Users : Validate(Query(ledger, u, 0), u, 0, 0, ReadBalance(u)) = "True"
    /\ (view.pc = "done" /\ view.mode = 0 /\ Resolves(view.uid)) => view.valid = "True"

\* a view with valid True over a self-transfer, after another commit() call failed
C16_Witness ==
    /\ view.pc = "done" /\ view.mode = 0 /\ view.valid = "True"
    /\ \E i \in 1..Len(view.log) :
          view.log[i].sender = view.uid /\ view.log[i].receiver = view.uid
    /\ \E t \in Txs : pc[t] = "returned" /\ result[t] = "raised"

\* C17. No verdict for one-direction views: a TransactionLog built with mode # 0 is
\* built without raising whatever rows were fetched (they are not scanned), without
\* the account's balance being read, and its valid is None, or False when no row was
\* fetched and the account does not resolve; it is never True.
C17_NoVerdict ==
    (view.pc \in {"done", "raised"} /\ view.valid # "TypeError" /\ view.mode # 0) =>
        /\ view.pc = "done"
        /\ view.current = NoView.current
        /\ view.valid = (IF view.rows = 0 /\ ~Resolves(view.uid) THEN "False" ELSE None)
        /\ Validate(view.log, view.uid, view.mode, 0, ReadBalance(view.uid)) = None

\* an incoming-only view whose rows add up to the stored, non-zero balance
C17_Witness ==
    /\ view.pc = "done" /\ view.mode > 0 /\ Len(view.log) > 0 /\ ~HasForeign(view.log, view.uid)
    /\ Recomputed(view.log, view.uid) = balance[view.uid]
    /\ view.valid = None

\* the ledger entry with the id get() returns is the one of the Transaction
IsEntryOf(e, t) ==
    /\ e.sender = txs[t].src /\ e.receiver = txs[t].dst
    /\ e.amount = txs[t].amount /\ e.reason = txs[t].reason

C18_IdState ==
    \A t \in Txs :
        /\ (~txs[t].committed \/ applied[t] = 0) => Get(t) = NoId
        /\ txs[t].committed =>
              /\ Get(t) # NoId
              /\ \E i \in 1..Len(ledger) : ledger[i].id = Get(t) /\ IsEntryOf(ledger[i], t)

C18_IdStable ==
    \A t \in Txs : Get(t) # NoId => (txs'[t].committed /\ txs'[t].id = Get(t))

\* C18. Id lifecycle: get() returns no id as long as no commit() call of the
\* Transaction has succeeded, also after failed calls; once one has succeeded it returns
\* the id of the Transaction's ledger entry in the store, and no later step, of a
\* commit() call or other, changes the value it returns.
C18_IdLifecycle == []C18_IdState /\ [][C18_IdStable]_vars

\* a Transaction committed at the second attempt, after a further commit() call
C18_Witness ==
    \E t \in Txs : /\ txs[t].committed /\ failedAt[t] # None
                   /\ JustReturned(t) /\ result[t] = "noop"
                   /\ Get(t) # NoId

C19_ClosedOnce ==
    \A t \in Txs :
        /\ (conn[t] # "closed" /\ conn'[t] = "closed") => (conn[t] = "open" /\ pc[t] = "finally")
        /\ (conn[t] = "closed" /\ conn'[t] # "closed") => (pc[t] = "returned" /\ conn'[t] = None)

\* C19. Guaranteed release: when a commit() call has returned or raised, the
\* connection opened for its atomic unit, if one was opened, is closed, whichever
\* step succeeded or failed.
C19_GuaranteedRelease ==
    \A t \in Txs : pc[t] = "returned" => conn[t] \in {None, "closed"}

\* the same for the connections that execute_no_commit() handed back to commit()
C19_BoundReleasedAtReturn ==
    \A t \in Txs : pc[t] = "returned" => conn[t] \in {None, "unbound", "closed"}

\* a connection handed back to commit() is closed at the return, and a connection is
\* closed once, in the finally block
C19_ReleaseOfBound == []C19_BoundReleasedAtReturn /\ [][C19_ClosedOnce]_vars

====
